---- MODULE Spec2Model ----
(***************************************************************************)
(* A model of main_code.py: the code-intelligence pipeline of the          *)
(* Intelligent IDE (test synthesis, static analysis, sandboxed execution,  *)
(* diagnosis post-processing, CI aggregation) and the page sections that   *)
(* drive it through the session state.                                     *)
(*                                                                         *)
(* A source text is modelled as the sequence of its top-level statements.  *)
(* A statement is a record (Node) that carries what the parser makes of it *)
(* (kind, name, parameter list, nested definitions) and what the           *)
(* interpreter does with it (behav).                                       *)
(***************************************************************************)
EXTENDS Integers, Sequences, FiniteSets, TLC

VARIABLES
    code,        \* the source text handed to the static operations
    tests,       \* what generate_unit_tests_for_code returned for it
    analysis,    \* what analyze_code returned for it
    store,       \* process-wide state that outlives a call (attributes of imported modules)
    pc,          \* where the running call of debug_code / run_ci stands
    call,        \* the running call: its name and arguments
    local_env,   \* the running call's namespace, bindings in insertion order
    steps,       \* the steps the running call has taken, with the fault each met
    test_cases,  \* the classes run_ci discovered
    ret,         \* how the call ended: the value returned or the fault raised
    generated_text,   \* the text the generative model has produced for the prompt
    suggested,        \* what suggest_bug_fix returned for it
    session,     \* st.session_state: the stored code and the stored tests
    choice       \* the section the sidebar shows

staticVars == <<code, tests, analysis>>
runVars == <<store, pc, call, local_env, steps, test_cases, ret>>
fixVars == <<generated_text, suggested>>
uiVars == <<session, choice>>
vars == <<code, tests, analysis, store, pc, call, local_env, steps, test_cases, ret,
          generated_text, suggested, session, choice>>

(***************************************************************************)
(* Bounds of the model.                                                    *)
(***************************************************************************)
MaxBody == 2        \* top-level statements of a source (SpecSynth)
MaxArgs == 2        \* positional-or-keyword parameters of a function
MaxPosOnly == 1     \* positional-only parameters of a function
MaxKwOnly == 1      \* keyword-only parameters of a function
MaxDefaults == 2    \* parameters of a function that carry a default
MaxSigDefs == 1     \* function definitions of a source (SpecSig)
MaxRunBody == 2     \* top-level statements of an executed source (SpecRun)
MaxReply == 6       \* characters of a completion of the generative model (SpecFix)

Names == {"f", "g"}

\* A variable that holds a call's return value, before and after the call.
NoResult == [done |-> FALSE, val |-> <<>>]
Returned(v) == [done |-> TRUE, val |-> v]

(***************************************************************************)
(* Source texts.                                                           *)
(***************************************************************************)
\* One parameter as written between the parentheses of a def.
Param(k, d) == [pkind |-> k, default |-> d]

Rep(x, n) == [i \in 1..n |-> x]

\* The parameter list  po.., /, pl.., *va, ko.., **kw  whose last nd
\* positional parameters carry a default.
ParamList(po, pl, nd, va, ko, kw) ==
    [i \in 1..po |-> Param("posonly", i > po + pl - nd)]
    \o [i \in 1..pl |-> Param("plain", po + i > po + pl - nd)]
    \o (IF va THEN <<Param("vararg", FALSE)>> ELSE <<>>)
    \o Rep(Param("kwonly", FALSE), ko)
    \o (IF kw THEN <<Param("kwarg", FALSE)>> ELSE <<>>)

\* A def nested in a statement: a method of a class, an inner function of a
\* function. callee/args are the call its body makes (callee "" for none);
\* behav is what running the body does.
Method(n, callee, args, b) == [name |-> n, callee |-> callee, args |-> args, behav |-> b]

Node(k, n, ps, inner, b, t) ==
    [kind |-> k, name |-> n, params |-> ps, nested |-> inner, behav |-> b, text |-> t]

\* def n(ps): with the inner defs `inner`; calling it does b
FunctionDef(n, ps, inner, b) ==
    Node("FunctionDef", n, ps, [i \in 1..Len(inner) |-> Method(inner[i], "", <<>>, "value")], b, <<>>)
AsyncFunctionDef(n, ps) == Node("AsyncFunctionDef", n, ps, <<>>, "value", <<>>)
\* class n(base): with the methods ms
ClassDef(n, base, ms) == Node("ClassDef", n, <<>>, ms, base, <<>>)
Assign(n) == Node("Assign", n, <<>>, <<>>, "", <<>>)
\* a return statement outside any function: the grammar accepts it, the
\* compiler rejects it
Return == Node("Return", "", <<>>, <<>>, "", <<>>)
\* text no grammar rule matches, such as  def broken(:
Malformed == Node("Malformed", "", <<>>, <<>>, "", <<"def broken(:">>)
\* raise exc(msg) at top level; exc is "Exception" for any subclass of
\* Exception, and "SystemExit" (what sys.exit() raises) is a BaseException
\* that is no Exception
Raise(exc, msg) == Node("Raise", "", <<>>, <<>>, exc, <<msg>>)
\* import sys; sys.flag = 1
SetAttr == Node("SetAttr", "sys", <<>>, <<>>, "", <<"flag">>)
\* import sys; sys.flag
GetAttr == Node("GetAttr", "sys", <<>>, <<>>, "", <<"flag">>)
\* a line of white space
Blank == Node("Blank", "", <<>>, <<>>, "", <<" ">>)
\* statements only generated text holds
Import(n) == Node("Import", n, <<>>, <<>>, "", <<>>)
Comment(t) == Node("Comment", "", <<>>, <<>>, "", t)
MainGuard == Node("If", "", <<>>, <<>>, "", <<"if __name__ == '__main__':", "unittest.main()">>)

PlainSigs == {ParamList(0, n, 0, FALSE, 0, FALSE) : n \in 0..MaxArgs}

SynthStmts ==
    {FunctionDef(n, ps, inner, "value") :
        n \in Names, ps \in PlainSigs, inner \in {<<>>, <<"f">>}}
    \cup {AsyncFunctionDef(n, <<>>) : n \in Names}
    \cup {ClassDef("K", "object", <<Method(n, "", <<>>, "value")>>) : n \in Names}
    \cup {Assign("x"), Return, Malformed}

\* every well-formed parameter list within the bounds
AllSigs ==
    {ParamList(po, pl, nd, va, ko, kw) :
        po \in 0..MaxPosOnly, pl \in 0..MaxArgs, nd \in 0..MaxDefaults,
        va \in BOOLEAN, ko \in 0..MaxKwOnly, kw \in BOOLEAN}

SigStmts == {FunctionDef("f", ps, <<>>, "value") : ps \in AllSigs}

RECURSIVE SeqsUpTo(_, _)
SeqsUpTo(S, n) ==
    IF n = 0 THEN {<<>>}
    ELSE LET shorter == SeqsUpTo(S, n - 1)
         IN  shorter \cup {Append(t, x) : t \in {u \in shorter : Len(u) = n - 1}, x \in S}

\* a test-case class written by hand, its one test ending as `outcome`
HandTestCase(n, outcome) == ClassDef(n, "TestCase", <<Method("test_it", "", <<>>, outcome)>>)

\* the statements of the sources that are executed
RunStmts ==
    {FunctionDef("f", <<>>, <<>>, b) : b \in {"value", "none", "Exception", "SystemExit"}}
    \cup {FunctionDef("f", ParamList(0, 1, 0, FALSE, 0, FALSE), <<>>, "value"),
          FunctionDef("f", ParamList(1, 0, 0, FALSE, 0, FALSE), <<>>, "value")}
    \cup {Import("unittest"), HandTestCase("T", "pass"), HandTestCase("T", "error"),
          ClassDef("K", "object", <<>>)}
    \cup {Raise("Exception", "boom"), Raise("SystemExit", "1"), SetAttr, GetAttr, Malformed}

RunSources == SeqsUpTo(RunStmts, MaxRunBody)

\* test sources that generate_unit_tests_for_code did not write
HandTests ==
    {<<>>, <<Import("unittest"), HandTestCase("T2", "fail")>>, <<HandTestCase("T2", "pass")>>,
     <<Raise("Exception", "bad test")>>, <<Raise("SystemExit", "2")>>}

(***************************************************************************)
(* The parser and the compiler (ast.parse, compile).                       *)
(***************************************************************************)
\* str(e) of a SyntaxError: "msg (filename, line n)", kept in its parts
SyntaxError(msg, filename, lineno) == <<msg, filename, ToString(lineno)>>

FirstOf(c, k) == CHOOSE i \in 1..Len(c) : c[i].kind = k /\ \A j \in 1..(i - 1) : c[j].kind # k
HasKind(c, k) == \E i \in 1..Len(c) : c[i].kind = k

\* ast.parse(code): the tree, or the SyntaxError the grammar raises
ast_parse(c) ==
    IF HasKind(c, "Malformed")
    THEN [ok |-> FALSE, body |-> <<>>,
          e |-> SyntaxError("invalid syntax", "<unknown>", FirstOf(c, "Malformed"))]
    ELSE [ok |-> TRUE, body |-> c, e |-> <<>>]

\* compile(code, '<string>', 'exec'): the grammar's verdict, then the
\* compiler's own checks of the tree
compile(c) ==
    IF HasKind(c, "Malformed")
    THEN [ok |-> FALSE, e |-> SyntaxError("invalid syntax", "<string>", FirstOf(c, "Malformed"))]
    ELSE IF HasKind(c, "Return")
    THEN [ok |-> FALSE,
          e |-> SyntaxError("'return' outside function", "<string>", FirstOf(c, "Return"))]
    ELSE [ok |-> TRUE, e |-> <<>>]

(***************************************************************************)
(* generate_unit_tests_for_code and analyze_code.                          *)
(***************************************************************************)
\* a plausible slip: only the parameters without a default are counted
num_args_required(node) ==
    Len(SelectSeq(node.params, LAMBDA p : p.pkind = "plain" /\ ~p.default))

\* len(node.args.args): ast puts in args.args the parameters that are neither
\* positional-only, variadic nor keyword-only, with or without a default
num_args(node) == Len(SelectSeq(node.params, LAMBDA p : p.pkind = "plain"))

\* the class text one FunctionDef contributes
TestClass(node) ==
    ClassDef("Test_" \o node.name, "TestCase",
             <<Method("test_" \o node.name, node.name, Rep("1", num_args(node)), "guarded")>>)

\* a plausible slip: coroutine definitions taken for function definitions too
IsAnyFunctionDef(node) == node.kind \in {"FunctionDef", "AsyncFunctionDef"}

\* isinstance(node, ast.FunctionDef)
IsFunctionDef(node) == node.kind = "FunctionDef"

\* the loop over tree.body from statement i on; acc holds the two locals the
\* loop updates, tests and found_function
RECURSIVE TestsLoop(_, _, _)
TestsLoop(body, i, acc) ==
    IF i > Len(body) THEN acc
    ELSE IF IsFunctionDef(body[i])
         THEN TestsLoop(body, i + 1,
                        [tests |-> Append(acc.tests, TestClass(body[i])), found_function |-> TRUE])
         ELSE TestsLoop(body, i + 1, acc)

generate_unit_tests_for_code(c) ==
    LET tree == ast_parse(c) IN
    IF ~tree.ok
    THEN <<Comment(<<"# Could not generate tests due to syntax error: ">> \o tree.e)>>
    ELSE LET looped == TestsLoop(tree.body, 1,
                                 [tests |-> <<Import("unittest")>>, found_function |-> FALSE])
         IN  looped.tests
             \o (IF ~looped.found_function
                 THEN <<Comment(<<"# No function definitions found in the provided code to test.">>)>>
                 ELSE <<>>)
             \o <<MainGuard>>

analyze_code(c) ==
    LET r == compile(c) IN
    IF r.ok THEN <<"No syntax errors detected.">>
    ELSE <<"Syntax Error: ">> \o r.e

(***************************************************************************)
(* exec(source, namespace).                                                *)
(***************************************************************************)
Val(t, base, ps, ms, b) == [type |-> t, base |-> base, params |-> ps, methods |-> ms, behav |-> b]
Module == Val("module", "", <<>>, <<>>, "")
Object == Val("object", "", <<>>, <<>>, "")

NoFault == [exc |-> "none", msg |-> ""]
Fault(exc, msg) == [exc |-> exc, msg |-> msg]

Bound(env, n) == \E i \in 1..Len(env) : env[i].name = n
Lookup(env, n) == env[CHOOSE i \in 1..Len(env) : env[i].name = n].val
\* env[n] = v: a dict keeps a rebound key at its place
Bind(env, n, v) ==
    IF Bound(env, n)
    THEN [i \in 1..Len(env) |-> IF env[i].name = n THEN [name |-> n, val |-> v] ELSE env[i]]
    ELSE Append(env, [name |-> n, val |-> v])

Outcome(env, st, f) == [env |-> env, store |-> st, fault |-> f]

\* one top-level statement run in namespace env with process state st
ExecStmt(node, env, st) ==
    CASE node.kind \in {"FunctionDef", "AsyncFunctionDef"} ->
            Outcome(Bind(env, node.name, Val("function", "", node.params, <<>>, node.behav)), st, NoFault)
      [] node.kind = "ClassDef" ->
            IF node.behav = "TestCase" /\ ~Bound(env, "unittest")
            THEN Outcome(env, st, Fault("Exception", "name 'unittest' is not defined"))
            ELSE IF node.behav = "TestCase" /\ Lookup(env, "unittest").type # "module"
            THEN Outcome(env, st, Fault("Exception", "object has no attribute 'TestCase'"))
            ELSE Outcome(Bind(env, node.name, Val("class", node.behav, <<>>, node.nested, "")), st, NoFault)
      [] node.kind = "Assign" -> Outcome(Bind(env, node.name, Object), st, NoFault)
      [] node.kind = "Import" -> Outcome(Bind(env, node.name, Module), st, NoFault)
      [] node.kind = "Raise" -> Outcome(env, st, Fault(node.behav, node.text[1]))
      [] node.kind = "SetAttr" ->
            Outcome(Bind(env, node.name, Module), st \cup {node.text[1]}, NoFault)
      [] node.kind = "GetAttr" ->
            IF node.text[1] \in st
            THEN Outcome(Bind(env, node.name, Module), st, NoFault)
            ELSE Outcome(Bind(env, node.name, Module), st,
                         Fault("Exception", "module 'sys' has no attribute 'flag'"))
      \* a comment; the guard  if __name__ == '__main__':  which is false in a
      \* namespace without __name__ (the builtins' __name__ is found: 'builtins')
      [] OTHER -> Outcome(env, st, NoFault)

RECURSIVE ExecFrom(_, _, _, _)
ExecFrom(c, i, env, st) ==
    IF i > Len(c) THEN Outcome(env, st, NoFault)
    ELSE LET r == ExecStmt(c[i], env, st) IN
         IF r.fault.exc # "none" THEN r ELSE ExecFrom(c, i + 1, r.env, r.store)

\* exec(c, env): the text is compiled, then its statements run in order
\* until one raises
exec(c, env, st) ==
    LET r == compile(c) IN
    IF ~r.ok
    THEN Outcome(env, st, Fault("Exception", r.e[1] \o " (" \o r.e[2] \o ", line " \o r.e[3] \o ")"))
    ELSE ExecFrom(c, 1, env, st)

(***************************************************************************)
(* The unittest run of the discovered classes.                             *)
(***************************************************************************)
\* whether f(1, ..., 1) with n arguments binds to the parameter list ps
Accepts(ps, n) ==
    LET positional == {j \in 1..Len(ps) : ps[j].pkind \in {"posonly", "plain"}}
        required == {j \in positional : ~ps[j].default}
    IN  /\ Cardinality(required) <= n
        /\ (n <= Cardinality(positional) \/ \E j \in 1..Len(ps) : ps[j].pkind = "vararg")
        /\ \A j \in 1..Len(ps) : ps[j].pkind = "kwonly" => ps[j].default

\* the body generate_unit_tests_for_code writes:
\*     try: result = callee(args); self.assertIsNotNone(result)
\*     except Exception as e: self.fail(...)
\* A NameError, a TypeError, the AssertionError of assertIsNotNone and any
\* other Exception become a failure; what `except Exception` lets through
\* reaches the runner, which records an error.
GuardedCall(env, m) ==
    IF ~Bound(env, m.callee) THEN "fail"
    ELSE LET v == Lookup(env, m.callee) IN
         CASE v.type = "class" -> "pass"
           [] v.type = "function" ->
                IF ~Accepts(v.params, Len(m.args)) THEN "fail"
                ELSE CASE v.behav = "value" -> "pass"
                       [] v.behav = "none" -> "fail"
                       [] v.behav = "Exception" -> "fail"
                       [] OTHER -> "error"
           [] OTHER -> "fail"

\* one test method run by the runner: "pass", "fail" or "error"
RunTest(env, m) == IF m.behav = "guarded" THEN GuardedCall(env, m) ELSE m.behav

\* a plausible slip: every class of the namespace taken for a test case
IsAnyClass(v) == v.type = "class"

\* isinstance(obj, type) and issubclass(obj, unittest.TestCase)
IsTestCase(v) == v.type = "class" /\ v.base = "TestCase"

\* the loop over local_env.values()
Discover(env) ==
    LET found == SelectSeq(env, LAMBDA b : IsTestCase(b.val))
    IN  [i \in 1..Len(found) |-> found[i].val]

\* suite.addTests(loader.loadTestsFromTestCase(tc)) for each tc
RECURSIVE Suite(_, _)
Suite(tcs, i) == IF i > Len(tcs) THEN <<>> ELSE tcs[i].methods \o Suite(tcs, i + 1)

\* runner.run(suite): the result of each test, in suite order
RunSuite(env, suite) == [i \in 1..Len(suite) |-> [name |-> suite[i].name, result |-> RunTest(env, suite[i])]]

CountOf(results, r) == Len(SelectSeq(results, LAMBDA x : x.result = r))

(***************************************************************************)
(* What debug_code and run_ci hand back.                                   *)
(***************************************************************************)
Ret(kind, form, text, sugg, n, f, e) ==
    [kind |-> kind, form |-> form, text |-> text, suggestion |-> sugg,
     testsRun |-> n, failures |-> f, errors |-> e]
NoRet == Ret("none", "", <<>>, <<>>, 0, 0, 0)
\* return of a plain string
Message(form, text) == Ret("return", form, text, <<>>, 0, 0, 0)
\* the fault leaves the call: no except clause of the function caught it
Propagates(f) == Ret("raise", f.exc, <<f.msg>>, <<>>, 0, 0, 0)

Summary(n, f, e) ==
    "CI Summary: Ran " \o ToString(n) \o " tests. Failures: " \o ToString(f)
        \o ". Errors: " \o ToString(e) \o "."

Report(results) ==
    Ret("return", "report",
        [i \in 1..Len(results) |-> results[i].name \o " ... " \o results[i].result]
            \o <<Summary(Len(results), CountOf(results, "fail"), CountOf(results, "error"))>>,
        <<>>, Len(results), CountOf(results, "fail"), CountOf(results, "error"))

Step(name, f) == [step |-> name, fault |-> f]

\* a plausible slip: exec run in the module's own globals, which hold the
\* module's imports, instead of a dict of the call's own
ModuleGlobals == <<[name |-> "unittest", val |-> Module]>>

\* local_env = {}
FreshEnv == <<>>

(***************************************************************************)
(* suggest_bug_fix: the post-processing of the model's completion. A text  *)
(* is a sequence of characters here.                                       *)
(***************************************************************************)
Chars == {"f", "F", "i", "x", " "}

fix == <<"f", "i", "x">>

\* str.lower()
lower(t) == [i \in 1..Len(t) |-> IF t[i] = "F" THEN "f" ELSE t[i]]

OccursAt(t, kw, i) == i + Len(kw) - 1 <= Len(t) /\ SubSeq(t, i, i + Len(kw) - 1) = kw

\* kw in t
Contains(t, kw) == \E i \in 1..Len(t) : OccursAt(t, kw, i)

\* t.split(kw)[-1]: the occurrences are found from the left, none overlapping
\* the one before; the last piece starts after the last of them (at `start`)
RECURSIVE SplitLast(_, _, _, _)
SplitLast(t, kw, i, start) ==
    IF i + Len(kw) - 1 > Len(t) THEN SubSeq(t, start, Len(t))
    ELSE IF OccursAt(t, kw, i) THEN SplitLast(t, kw, i + Len(kw), i + Len(kw))
    ELSE SplitLast(t, kw, i + 1, start)

\* str.strip()
RECURSIVE strip(_)
strip(t) ==
    IF t = <<>> THEN t
    ELSE IF t[1] = " " THEN strip(Tail(t))
    ELSE IF t[Len(t)] = " " THEN strip(SubSeq(t, 1, Len(t) - 1))
    ELSE t

\* lines 103-109, suggestion being outputs[0]["generated_text"]
suggest_bug_fix(suggestion) ==
    LET suggestion_text ==
            IF Contains(lower(suggestion), fix)
            THEN SplitLast(suggestion, fix, 1, 1)
            ELSE suggestion
    IN  strip(suggestion_text)

\* completions the model gives while debugging
DebugReplies == {<<"f", "i", "x", " ", "i">>, <<"F", "i", "x">>}

(***************************************************************************)
(* run_ci(user_code, test_code), one action per step.                       *)
(***************************************************************************)
\* the entry of debug_code and of run_ci: the locals are created
StartCall(op, u, t, first) ==
    /\ call' = [op |-> op, user_code |-> u, test_code |-> t]
    /\ local_env' = FreshEnv
    /\ pc' = first
    /\ steps' = <<>>
    /\ test_cases' = <<>>
    /\ ret' = NoRet
    /\ UNCHANGED store

CallRunCi ==
    /\ pc = "idle"
    /\ \E u \in RunSources :
         \E t \in {generate_unit_tests_for_code(u)} \cup HandTests :
            StartCall("run_ci", u, t, "ci_user")
    /\ UNCHANGED <<staticVars, fixVars, uiVars>>

\* try: exec(src, local_env)  except Exception as e: return prefix + str(e)
CiExec(src, name, prefix, next) ==
    LET r == exec(src, local_env, store) IN
    /\ local_env' = r.env
    /\ store' = r.store
    /\ steps' = Append(steps, Step(name, r.fault))
    /\ CASE r.fault.exc = "none" -> pc' = next /\ ret' = ret
         [] r.fault.exc = "Exception" ->
                pc' = "done" /\ ret' = Message("error", <<prefix, r.fault.msg>>)
         [] OTHER -> pc' = "done" /\ ret' = Propagates(r.fault)
    /\ UNCHANGED <<call, test_cases>>
    /\ UNCHANGED <<staticVars, fixVars, uiVars>>

CiExecUser ==
    /\ pc = "ci_user"
    /\ CiExec(call.user_code, "exec_user", "Error in user code execution: ", "ci_test")

CiExecTest ==
    /\ pc = "ci_test"
    /\ CiExec(call.test_code, "exec_test", "Error in test code execution: ", "ci_discover")

CiDiscover ==
    /\ pc = "ci_discover"
    /\ test_cases' = Discover(local_env)
    /\ steps' = Append(steps, Step("discover", NoFault))
    /\ IF test_cases' = <<>>
       THEN pc' = "done" /\ ret' = Message("message", <<"No test cases found to run.">>)
       ELSE pc' = "ci_run" /\ ret' = ret
    /\ UNCHANGED <<store, call, local_env>>
    /\ UNCHANGED <<staticVars, fixVars, uiVars>>

CiRunSuite ==
    /\ pc = "ci_run"
    /\ steps' = Append(steps, Step("run_suite", NoFault))
    /\ ret' = Report(RunSuite(local_env, Suite(test_cases, 1)))
    /\ pc' = "done"
    /\ UNCHANGED <<store, call, local_env, test_cases>>
    /\ UNCHANGED <<staticVars, fixVars, uiVars>>

\* the page shows the result; the call's locals are gone
Finish ==
    /\ pc = "done"
    /\ pc' = "idle"
    /\ call' = [op |-> "", user_code |-> <<>>, test_code |-> <<>>]
    /\ local_env' = <<>>
    /\ steps' = <<>>
    /\ test_cases' = <<>>
    /\ ret' = NoRet
    /\ UNCHANGED store
    /\ UNCHANGED <<staticVars, fixVars, uiVars>>

(***************************************************************************)
(* debug_code(code), one action per step.                                   *)
(***************************************************************************)
CallDebug ==
    /\ pc = "idle"
    /\ \E c \in RunSources : StartCall("debug_code", c, <<>>, "dbg_exec")
    /\ UNCHANGED <<staticVars, fixVars, uiVars>>

\* try: exec(code, local_env); return "Code executed without runtime errors."
\* except Exception as e: ...
DbgExec ==
    /\ pc = "dbg_exec"
    /\ LET r == exec(call.user_code, local_env, store) IN
         /\ local_env' = r.env
         /\ store' = r.store
         /\ steps' = Append(steps, Step("exec", r.fault))
         /\ CASE r.fault.exc = "none" ->
                    pc' = "done" /\ ret' = Message("success", <<"Code executed without runtime errors.">>)
              [] r.fault.exc = "Exception" -> pc' = "dbg_suggest" /\ ret' = ret
              [] OTHER -> pc' = "done" /\ ret' = Propagates(r.fault)
    /\ UNCHANGED <<call, test_cases>>
    /\ UNCHANGED <<staticVars, fixVars, uiVars>>

\* the except block: str(e), traceback.format_exc(), suggest_bug_fix(...) and
\* the return. The generative model answers, or loading or calling it raises,
\* which nothing here catches.
DbgSuggest ==
    /\ pc = "dbg_suggest"
    /\ steps' = Append(steps, Step("suggest", NoFault))
    /\ \/ \E reply \in DebugReplies :
            ret' = Ret("return", "fault_text",
                       <<"Runtime Error: ", steps[1].fault.msg, "Traceback:",
                         "Traceback (most recent call last): ... " \o steps[1].fault.msg,
                         "AI Suggested Fix:">>,
                       suggest_bug_fix(reply), 0, 0, 0)
       \/ ret' = Propagates(Fault("Exception", "the model could not be loaded"))
    /\ pc' = "done"
    /\ UNCHANGED <<store, call, local_env, test_cases>>
    /\ UNCHANGED <<staticVars, fixVars, uiVars>>

InitRun ==
    /\ store = {}
    /\ pc = "idle"
    /\ call = [op |-> "", user_code |-> <<>>, test_code |-> <<>>]
    /\ local_env = <<>>
    /\ steps = <<>>
    /\ test_cases = <<>>
    /\ ret = NoRet

InitFix ==
    /\ generated_text = <<>>
    /\ suggested = NoResult

\* a session that has stored nothing yet, the sidebar on its first option
InitUI ==
    /\ session = [has_code |-> FALSE, code |-> <<>>, has_tests |-> FALSE, tests |-> <<>>]
    /\ choice = "Home"

(***************************************************************************)
(* SpecRun: calls of debug_code and run_ci, one after the other, in one    *)
(* process.                                                                *)
(***************************************************************************)
NextRun ==
    \/ CallRunCi \/ CiExecUser \/ CiExecTest \/ CiDiscover \/ CiRunSuite
    \/ CallDebug \/ DbgExec \/ DbgSuggest
    \/ Finish

(***************************************************************************)
(* SpecSynth: sources are submitted and handed to the two static           *)
(* operations.                                                             *)
(***************************************************************************)
InitStatic ==
    /\ code = <<>>
    /\ tests = NoResult
    /\ analysis = NoResult

InitAll == InitStatic /\ InitRun /\ InitFix /\ InitUI

SpecRun == InitAll /\ [][NextRun]_vars

\* the text area: one more statement typed at the end of the source
Type(S, max) ==
    /\ Len(code) < max
    /\ \E stmt \in S : code' = Append(code, stmt)
    /\ tests' = NoResult
    /\ analysis' = NoResult
    /\ UNCHANGED <<runVars, fixVars, uiVars>>

\* the text area emptied
Clear ==
    /\ code' = <<>>
    /\ tests' = NoResult
    /\ analysis' = NoResult
    /\ UNCHANGED <<runVars, fixVars, uiVars>>

Synthesize ==
    /\ tests' = Returned(generate_unit_tests_for_code(code))
    /\ UNCHANGED <<code, analysis>>
    /\ UNCHANGED <<runVars, fixVars, uiVars>>

Analyze ==
    /\ analysis' = Returned(analyze_code(code))
    /\ UNCHANGED <<code, tests>>
    /\ UNCHANGED <<runVars, fixVars, uiVars>>

TypeSynth == Type(SynthStmts, MaxBody)

NextSynth == TypeSynth \/ Clear \/ Synthesize \/ Analyze

SpecSynth == InitAll /\ [][NextSynth]_vars

(***************************************************************************)
(* SpecSig: the same operations on function definitions of every           *)
(* parameter-list shape.                                                   *)
(***************************************************************************)
TypeSig == Type(SigStmts, MaxSigDefs)

NextSig == TypeSig \/ Clear \/ Synthesize \/ Analyze

SpecSig == InitAll /\ [][NextSig]_vars

(***************************************************************************)
(* SpecFix: the generative model writes a completion, suggest_bug_fix      *)
(* post-processes it.                                                      *)
(***************************************************************************)
\* the model's text grows by one character
Emit ==
    /\ Len(generated_text) < MaxReply
    /\ \E ch \in Chars : generated_text' = Append(generated_text, ch)
    /\ suggested' = NoResult
    /\ UNCHANGED <<staticVars, runVars, uiVars>>

SuggestBugFix ==
    /\ suggested' = Returned(suggest_bug_fix(generated_text))
    /\ UNCHANGED generated_text
    /\ UNCHANGED <<staticVars, runVars, uiVars>>

NextFix == Emit \/ SuggestBugFix

SpecFix == InitAll /\ [][NextFix]_vars

(***************************************************************************)
(* SpecUI: the page sections (lines 192-288). Every action is one run of   *)
(* the script for the section chosen in the sidebar.                       *)
(***************************************************************************)
\* the texts that reach the session: typed in the editor or written by the
\* generative model
UISources ==
    {<<>>, <<Blank>>, <<Malformed>>,
     <<FunctionDef("f", <<>>, <<>>, "value")>>, <<FunctionDef("g", <<>>, <<>>, "none")>>}

DefaultCode == <<Comment(<<"# Write your Python code here...">>)>>

\* text.strip() == ""
IsBlank(text) == \A i \in 1..Len(text) : text[i].kind = "Blank"

\* 'code' not in st.session_state or st.session_state['code'].strip() == ""
NoCode(sess) == ~sess.has_code \/ IsBlank(sess.code)

\* a plausible slip: the tests are synthesized on every visit of the section
CiTestsAlways(sess) == generate_unit_tests_for_code(sess.code)

\* lines 276-280: the tests the CI Simulation section stores and runs
CiTests(sess) ==
    IF ~sess.has_tests \/ IsBlank(sess.tests)
    THEN generate_unit_tests_for_code(sess.code)
    ELSE sess.tests

Home ==
    /\ pc = "idle"
    /\ choice' = "Home"
    /\ UNCHANGED <<session, staticVars, runVars, fixVars>>

\* the button Generate Code stores what generate_code_from_description
\* returns, a text without white space around it (code.strip())
CodeGeneration ==
    /\ pc = "idle"
    /\ choice' = "Code Generation"
    /\ \/ \E generated_code \in UISources \ {<<Blank>>} :
            session' = [session EXCEPT !.has_code = TRUE, !.code = generated_code]
       \/ UNCHANGED session
    /\ UNCHANGED <<staticVars, runVars, fixVars>>

\* the text area holds the stored code or the default text, the user edits it
\* or not, and what it holds is stored and analysed
CodeEditor ==
    /\ pc = "idle"
    /\ choice' = "Code Editor"
    /\ \E code_input \in UISources \cup {IF session.has_code THEN session.code ELSE DefaultCode} :
         /\ session' = [session EXCEPT !.has_code = TRUE, !.code = code_input]
         /\ analysis' = Returned(analyze_code(code_input))
    /\ UNCHANGED <<code, tests, runVars, fixVars>>

TestGeneration ==
    /\ pc = "idle"
    /\ choice' = "Test Generation"
    /\ IF NoCode(session)
       THEN UNCHANGED session
       ELSE session' = [session EXCEPT !.has_tests = TRUE,
                                       !.tests = generate_unit_tests_for_code(session.code)]
    /\ UNCHANGED <<staticVars, runVars, fixVars>>

\* the button Run Debugger calls debug_code(code)
DebugCode ==
    /\ pc = "idle"
    /\ choice' = "Debug Code"
    /\ \/ /\ ~NoCode(session)
          /\ StartCall("debug_code", session.code, <<>>, "dbg_exec")
       \/ UNCHANGED runVars
    /\ UNCHANGED <<session, staticVars, fixVars>>

\* the button Run CI Pipeline calls run_ci(code, tests)
CISimulation ==
    /\ pc = "idle"
    /\ choice' = "CI Simulation"
    /\ IF NoCode(session)
       THEN UNCHANGED <<session, runVars>>
       ELSE /\ session' = [session EXCEPT !.has_tests = TRUE, !.tests = CiTests(session)]
            /\ \/ StartCall("run_ci", session.code, CiTests(session), "ci_user")
               \/ UNCHANGED runVars
    /\ UNCHANGED <<staticVars, fixVars>>

NextUI ==
    \/ Home \/ CodeGeneration \/ CodeEditor \/ TestGeneration \/ DebugCode \/ CISimulation
    \/ CiExecUser \/ CiExecTest \/ CiDiscover \/ CiRunSuite
    \/ DbgExec \/ DbgSuggest
    \/ Finish

SpecUI == InitAll /\ [][NextUI]_vars

(***************************************************************************)
(* Properties of the static operations.                                    *)
(***************************************************************************)
Parses(c) == \A i \in 1..Len(c) : c[i].kind # "Malformed"
Functions(c) == SelectSeq(c, LAMBDA n : n.kind = "FunctionDef")
Classes(t) == SelectSeq(t, LAMBDA n : n.kind = "ClassDef")
Count(ps, k) == Cardinality({j \in 1..Len(ps) : ps[j].pkind = k})

C2_VerdictsAgree ==
    (tests.done /\ analysis.done /\ analysis.val[1] = "Syntax Error: ") =>
        /\ Len(tests.val) = 1
        /\ tests.val[1].kind = "Comment"
        /\ tests.val[1].text[1] = "# Could not generate tests due to syntax error: "
        /\ tests.val[1].text[2] = analysis.val[2]

\* C6 as stated: the call holds one placeholder per parameter that is neither
\* defaulted, variadic nor keyword-only.
C6_CountsRequiredOnly ==
    (tests.done /\ Parses(code)) =>
        LET fs == Functions(code)
            cs == Classes(tests.val)
        IN  \A i \in 1..Len(fs) :
                Len(cs[i].nested[1].args) =
                    Cardinality({j \in 1..Len(fs[i].params) :
                        fs[i].params[j].pkind = "plain" /\ ~fs[i].params[j].default})

\* C6 amended: the call holds exactly one placeholder 1 per
\* positional-or-keyword parameter, defaulted or not; positional-only,
\* variadic and keyword-only parameters add none.
C6_CountsPositionalOrKeyword ==
    (tests.done /\ Parses(code)) =>
        LET fs == Functions(code)
            cs == Classes(tests.val)
        IN  /\ Len(cs) = Len(fs)
            /\ \A i \in 1..Len(fs) :
                  /\ cs[i].nested[1].callee = fs[i].name
                  /\ Len(cs[i].nested[1].args) = Count(fs[i].params, "plain")
                  /\ \A k \in 1..Len(cs[i].nested[1].args) : cs[i].nested[1].args[k] = "1"

C6_Witness ==
    /\ tests.done
    /\ Len(code) = 1
    /\ Count(code[1].params, "posonly") = 1
    /\ Count(code[1].params, "plain") = 2
    /\ \E j \in 1..Len(code[1].params) :
          code[1].params[j].pkind = "plain" /\ code[1].params[j].default
    /\ Count(code[1].params, "vararg") = 1
    /\ Count(code[1].params, "kwonly") = 1
    /\ Len(Classes(tests.val)[1].nested[1].args) = 2

(***************************************************************************)
(* Properties of run_ci and debug_code.                                    *)
(***************************************************************************)
StepNames == [i \in 1..Len(steps) |-> steps[i].step]
IsPrefix(a, b) == Len(a) <= Len(b) /\ a = SubSeq(b, 1, Len(a))
CiDone == pc = "done" /\ call.op = "run_ci"
DbgDone == pc = "done" /\ call.op = "debug_code"
Times(name) == Cardinality({i \in 1..Len(steps) : steps[i].step = name})

\* C3: run_ci takes its steps in the order execute user source, execute test
\* source, discover, run suite; a fault in the user source ends the call with
\* the user-code error string before the test source is executed, a fault in
\* the test source ends it with the test-code error string before discovery;
\* and no fault of either execution leaves run_ci.
C3_HardStopAndNoFaultEscapes ==
    CiDone =>
        /\ IsPrefix(StepNames, <<"exec_user", "exec_test", "discover", "run_suite">>)
        /\ steps[1].fault.exc # "none" =>
              /\ Len(steps) = 1
              /\ ret = Message("error", <<"Error in user code execution: ", steps[1].fault.msg>>)
        /\ (Len(steps) >= 2 /\ steps[2].fault.exc # "none") =>
              /\ Len(steps) = 2
              /\ ret = Message("error", <<"Error in test code execution: ", steps[2].fault.msg>>)
        /\ ret.kind = "return"

\* C4: debug_code returns for every source: the success text exactly when the
\* execution raised nothing, otherwise a fault text with the raised fault's
\* message and a non-empty trace; no fault leaves the call.
C4_AlwaysReturns ==
    DbgDone =>
        /\ ret.kind = "return"
        /\ (steps[1].fault.exc = "none") <=> (ret.form = "success")
        /\ steps[1].fault.exc # "none" =>
              /\ ret.form = "fault_text"
              /\ ret.text[2] = steps[1].fault.msg
              /\ ret.text[4] # ""

\* C5: when run_ci runs the module synthesized from the user source it is given
\* (a source with no test classes of its own), the report counts no error,
\* whatever the functions of the source do when called.
C5_NoHarnessError ==
    (/\ CiDone
     /\ call.test_code = generate_unit_tests_for_code(call.user_code)
     /\ \A i \in 1..Len(call.user_code) : call.user_code[i].kind # "ClassDef"
     /\ ret.form = "report") => ret.errors = 0

NamesBoundBy(c) ==
    {c[i].name : i \in {j \in 1..Len(c) :
        c[j].kind \in {"FunctionDef", "AsyncFunctionDef", "ClassDef", "Assign", "Import",
                       "SetAttr", "GetAttr"}}}
CallStarts == pc \in {"ci_user", "dbg_exec"}
OwnNamespace ==
    /\ CallStarts => local_env = <<>>
    /\ pc # "idle" =>
          {local_env[i].name : i \in 1..Len(local_env)}
              \subseteq (NamesBoundBy(call.user_code) \cup NamesBoundBy(call.test_code))
ExecutedOnce ==
    /\ Times("exec") <= 1 /\ Times("exec_user") <= 1 /\ Times("exec_test") <= 1
    /\ DbgDone => Times("exec") = 1
    /\ CiDone => Times("exec_user") = 1

\* C8 as stated: every call starts from an empty namespace, executes each
\* source once, and nothing an earlier call's source did is visible to it: the
\* execution of its source ends as it would in a process that ran nothing
\* before.
C8_CallsIndependent ==
    /\ OwnNamespace
    /\ ExecutedOnce
    /\ pc = "done" => steps[1].fault = exec(call.user_code, <<>>, {}).fault

\* C8 amended: every call starts from an empty namespace of its own, which
\* never holds a binding that the call's own sources did not make, and
\* executes each source at most once (its first source exactly once).
C8_FreshNamespacePerCall == OwnNamespace /\ ExecutedOnce

\* a later call sees the attribute an earlier call set on a module
C8_Witness ==
    /\ DbgDone
    /\ call.user_code = <<GetAttr>>
    /\ steps[1].fault.exc = "none"
    /\ local_env # <<>>

(***************************************************************************)
(* Properties of suggest_bug_fix and of the session.                       *)
(***************************************************************************)
\* the text after the last place where the keyword stands, in whatever case,
\* which is how the test  "fix" in suggestion.lower()  looks for it
AfterLastKeyword(t) ==
    LET last == CHOOSE i \in 1..Len(t) :
                    /\ OccursAt(lower(t), fix, i)
                    /\ \A j \in (i + 1)..Len(t) : ~OccursAt(lower(t), fix, j)
    IN  SubSeq(t, last + Len(fix), Len(t))

\* C9: when the test finds the keyword in the completion, the suggestion is
\* the text after its last occurrence, and otherwise the whole completion
\* (either one without the white space around it): the test and the cut
\* agree on every completion.
C9_CutFollowsTest ==
    suggested.done =>
        suggested.val = strip(IF Contains(lower(generated_text), fix)
                              THEN AfterLastKeyword(generated_text)
                              ELSE generated_text)

TestsStored(sess) == sess.has_tests /\ ~IsBlank(sess.tests)

\* C10: stored tests that are not blank change only in the Test Generation
\* section; Code Generation and Code Editor never touch the stored tests; CI
\* Simulation synthesizes tests from the stored code only when none are
\* stored, and run_ci is called with the stored code and the stored tests.
C10_StoredTestsKept ==
    /\ [](pc # "idle" /\ call.op = "run_ci" =>
            /\ call.user_code = session.code
            /\ call.test_code = session.tests)
    /\ [][/\ (TestsStored(session) /\ session'.tests # session.tests) =>
                 choice' = "Test Generation"
          /\ (session'.tests # session.tests \/ session'.has_tests # session.has_tests) =>
                 \/ choice' = "Test Generation"
                 \/ /\ choice' = "CI Simulation"
                    /\ ~TestsStored(session)
                    /\ session'.tests = generate_unit_tests_for_code(session.code)
          /\ (call'.op = "run_ci" /\ call' # call /\ TestsStored(session)) =>
                 call'.test_code = session.tests /\ call'.user_code = session.code
         ]_vars

\* run_ci has run the stored tests, which are not those of the stored code
C10_Witness ==
    /\ pc = "done" /\ call.op = "run_ci"
    /\ TestsStored(session)
    /\ call.test_code = session.tests
    /\ session.tests # generate_unit_tests_for_code(session.code)
    /\ ret.form = "report"

====
